---------------------------- MODULE Spec2Model ----------------------------
(***************************************************************************)
(* Model of src/simple_mcp_server.py: the line-delimited JSON-RPC          *)
(* transport loop (main), the dispatcher (SimpleMCPServer.handle_message   *)
(* and the three handlers) and the two tool operations that talk to the    *)
(* repository-hosting API.                                                 *)
(*                                                                         *)
(* Python values are modelled as tagged records: [t |-> "null"] is None,   *)
(* [t |-> "str", v |-> s] a str, [t |-> "obj", v |-> r] a dict whose keys  *)
(* are the fields of r that are not Absent.  A dict built by the code      *)
(* (a response, a Tool Result, an error object) is a record in which a     *)
(* key the code does not set holds Absent.  An f-string is the sequence    *)
(* of its literal pieces and of the str() of its holes; the emoji that     *)
(* start some texts are left out of the literal pieces.                    *)
(***************************************************************************)
EXTENDS Integers, Sequences, FiniteSets, TLC

VARIABLES
    pc,         \* position of main(): read, parse, dispatch, await_*, write, except_*, done
    line,       \* main's local `line`
    message,    \* main's local `message`
    response,   \* main's local `response`
    exc,        \* the exception in flight towards main's except clauses
    msg_id,     \* handle_message's local `msg_id` while a tool call is suspended
    repo_name,  \* the tool's local `repo_name` while its external call is awaited
    calls,      \* requests issued to the hosting API for the line being handled, with their replies
    nread,      \* number of lines readline has returned (end-of-stream not counted)
    nwritten,   \* number of lines printed on stdout
    out,        \* the last line printed on stdout
    outFor      \* the value of nread when `out` was printed

vars == <<pc, line, message, response, exc, msg_id, repo_name, calls,
          nread, nwritten, out, outFor>>

---------------------------------------------------------------------------
(* Bounds of the model *)

\* number of input lines read before the stream is made to end
MaxLines == 2

---------------------------------------------------------------------------
(* Program constants *)

METHOD_NOT_FOUND == -32601
PARSE_ERROR == -32700
INTERNAL_ERROR == -32603
HTTP_OK == 200
HTTP_CREATED == 201
HTTP_NO_CONTENT == 204

GITHUB_API_URL == <<"https://api.github.com/user/repos">>
GITHUB_USER_URL == <<"https://api.github.com/user">>

---------------------------------------------------------------------------
(* Python values *)

Absent == [t |-> "absent"]
Unbound == [t |-> "unbound"]
None == [t |-> "null"]
PyStr(s) == [t |-> "str", v |-> s]
PyNum(n) == [t |-> "num", v |-> n]
PyBool(b) == [t |-> "bool", v |-> b]
PyList == [t |-> "list", len |-> 2]
PyDict(r) == [t |-> "obj", v |-> r]

IsDict(x) == x.t = "obj"

\* "k in d"
HasKey(d, k) == k \in DOMAIN d.v /\ d.v[k] # Absent

\* d.get(k, default)
Get(d, k, default) == IF HasKey(d, k) THEN d.v[k] ELSE default

\* bool(x)
Truthy(x) ==
    CASE x.t = "null" -> FALSE
      [] x.t = "str"  -> x.v # ""
      [] x.t = "num"  -> x.v # 0
      [] x.t = "bool" -> x.v
      [] x.t = "list" -> x.len # 0
      [] x.t = "obj"  -> \E k \in DOMAIN x.v : x.v[k] # Absent

\* str(x), as an f-string hole renders it
Fmt(x) ==
    CASE x.t = "null" -> "None"
      [] x.t = "str"  -> x.v
      [] x.t = "num"  -> ToString(x.v)
      [] x.t = "bool" -> IF x.v THEN "True" ELSE "False"
      [] x.t = "list" -> "[...]"
      [] x.t = "obj"  -> "{...}"

Range(s) == {s[i] : i \in DOMAIN s}

---------------------------------------------------------------------------
(* The input stream: the texts readline can return *)

EOF == [raw |-> "eof", val |-> None]
BlankLine == [raw |-> "blank", val |-> None]
GarbageLine == [raw |-> "garbage", val |-> None]
JsonLine(x) == [raw |-> "json", val |-> x]

EmptyArguments == [name |-> Absent, private |-> Absent, description |-> Absent, auto_init |-> Absent]

ArgumentValues ==
    { PyStr("oops"),
      PyDict(EmptyArguments),
      PyDict([EmptyArguments EXCEPT !.name = PyStr("")]),
      PyDict([EmptyArguments EXCEPT !.name = PyStr("repo")]),
      PyDict([EmptyArguments EXCEPT !.name = PyStr("repo"), !.description = PyStr("d")]),
      PyDict([name |-> PyStr("repo"), private |-> PyBool(TRUE),
              description |-> None, auto_init |-> PyBool(FALSE)]) }

ToolNames ==
    { PyStr("create_github_repository"), PyStr("delete_github_repository"), PyStr("foo") }

EmptyParams == [name |-> Absent, arguments |-> Absent]

ParamValues ==
    { None, PyStr("oops") }
    \cup { PyDict([name |-> n, arguments |-> a]) :
             n \in ToolNames \cup {Absent}, a \in ArgumentValues \cup {Absent} }

IdValues == { PyNum(7), PyStr("a") }

MethodValues ==
    { PyStr("initialize"), PyStr("tools/list"), PyStr("tools/call"), PyStr("ping") }

\* decoded requests: every tools/call shape, the other methods with and without params
Requests ==
    { PyDict([method |-> PyStr("tools/call"), id |-> i, params |-> p]) :
        i \in {Absent, PyNum(7)}, p \in ParamValues \cup {Absent} }
    \cup
    { PyDict([method |-> m, id |-> i, params |-> p]) :
        m \in (MethodValues \ {PyStr("tools/call")}) \cup {Absent},
        i \in IdValues \cup {Absent, None},
        p \in {Absent, PyDict(EmptyParams)} }

Lines ==
    { BlankLine, GarbageLine, JsonLine(PyList), JsonLine(PyNum(0)) }
    \cup { JsonLine(r) : r \in Requests }

\* json.loads(line.strip()): the decoded value, or JSONDecodeError
Loads(l) ==
    IF l.raw = "json" THEN [ok |-> TRUE, val |-> l.val]
    ELSE [ok |-> FALSE, val |-> None]

\* json.dumps(response): one line of text carrying the response
Dumps(r) == [raw |-> "json", val |-> r]

---------------------------------------------------------------------------
(* The hosting API: what an awaited httpx call can produce *)

Pending == [kind |-> "pending"]

Unparseable == [t |-> "unparseable"]
EmptyBody == [message |-> Absent, html_url |-> Absent, clone_url |-> Absent, login |-> Absent]

Bodies ==
    { Unparseable, PyList,
      PyDict(EmptyBody),
      PyDict([EmptyBody EXCEPT !.html_url = PyStr("https://h/repo"), !.login = PyStr("octocat")]),
      PyDict([message |-> PyStr("Not Found"), html_url |-> PyStr("https://h/repo"),
              clone_url |-> PyStr("https://h/repo.git"), login |-> PyStr("octocat")]) }

Statuses == {200, 201, 204, 404}

Replies ==
    { [kind |-> "response", status |-> s, body |-> b] : s \in Statuses, b \in Bodies }
    \cup { [kind |-> "raise", status |-> 0, body |-> Unparseable] }

---------------------------------------------------------------------------
(* Dictionaries the code builds *)

Response(id, result, error) ==
    [jsonrpc |-> "2.0", id |-> id, result |-> result, error |-> error]

ErrorObject(code, text) == [code |-> code, message |-> text]

\* {"content": [{"type": "text", "text": ...}]} with or without "isError": True
ToolResult(text, isError) ==
    [content |-> << [type |-> "text", text |-> text] >>, isError |-> isError]

\* What a coroutine does up to its next suspension point: it returns a value,
\* raises, or issues a request to the hosting API and waits for the reply.
Return(v) == [kind |-> "return", value |-> v]
Raise(e) == [kind |-> "raise", value |-> e]
Call(req, name) == [kind |-> "call", value |-> req, repo_name |-> name]

HttpRequest(verb, url, json) == [verb |-> verb, url |-> url, json |-> json, reply |-> Pending]

---------------------------------------------------------------------------
(* SimpleMCPServer *)

server_name == "github-repo-creator"
server_version == "1.0.0"

\* mutant of handle_initialize: the protocol version is negotiated from the
\* request's params
handle_initialize_Negotiated(msg, id) ==
    Response(id,
             [protocolVersion |-> IF HasKey(msg, "params") THEN "client" ELSE "2024-11-05",
              capabilities |-> [tools |-> "{}"],
              serverInfo |-> [name |-> server_name, version |-> server_version]],
             Absent)

handle_initialize(msg, id) ==
    Response(id,
             [protocolVersion |-> "2024-11-05",
              capabilities |-> [tools |-> "{}"],
              serverInfo |-> [name |-> server_name, version |-> server_version]],
             Absent)

ToolCatalog ==
    << [name |-> "create_github_repository",
        description |-> "Create a new GitHub repository",
        properties |-> {"name", "private", "description", "auto_init"},
        required |-> {"name"}],
       [name |-> "delete_github_repository",
        description |-> "Delete a GitHub repository",
        properties |-> {"name"},
        required |-> {"name"}] >>

handle_list_tools(id) == Response(id, [tools |-> ToolCatalog], Absent)

NameRequired == ToolResult(<<"Error: Repository name is required">>, PyBool(TRUE))

\* mutant of CreatePayload: the description is sent only when it is truthy
\* (`if arguments.get("description")`)
CreatePayload_DescriptionIfTruthy(arguments, name) ==
    [name |-> name,
     private |-> Get(arguments, "private", PyBool(FALSE)),
     auto_init |-> Get(arguments, "auto_init", PyBool(TRUE)),
     description |-> IF Truthy(Get(arguments, "description", None))
                     THEN arguments.v["description"] ELSE Absent]

\* the creation payload json_data
CreatePayload(arguments, name) ==
    [name |-> name,
     private |-> Get(arguments, "private", PyBool(FALSE)),
     auto_init |-> Get(arguments, "auto_init", PyBool(TRUE)),
     description |-> IF HasKey(arguments, "description")
                     THEN arguments.v["description"] ELSE Absent]

\* mutant of create_github_repository: only a missing name is rejected
\* (`if repo_name is None`), an empty one is sent to the hosting API
create_github_repository_NoneCheck(arguments) ==
    IF ~IsDict(arguments)
    THEN Return(ToolResult(<<"Error creating repository: ", "AttributeError">>, PyBool(TRUE)))
    ELSE LET name == Get(arguments, "name", None) IN
         IF name = None
         THEN Return(NameRequired)
         ELSE Call(HttpRequest("POST", GITHUB_API_URL, CreatePayload(arguments, name)), name)

\* create_github_repository up to `await client.post(...)`
create_github_repository(arguments) ==
    IF ~IsDict(arguments)
    THEN Return(ToolResult(<<"Error creating repository: ", "AttributeError">>, PyBool(TRUE)))
    ELSE LET name == Get(arguments, "name", None) IN
         IF ~Truthy(name)
         THEN Return(NameRequired)
         ELSE Call(HttpRequest("POST", GITHUB_API_URL, CreatePayload(arguments, name)), name)

\* response.json(): the parsed body, or the exception it raises
\* (.get on a body that is no dict raises too)
JsonDict(body) ==
    IF body = Unparseable THEN Raise("JSONDecodeError")
    ELSE IF ~IsDict(body) THEN Raise("AttributeError")
    ELSE Return(body)

\* mutant of create_on_reply: success is tested against 200 instead of 201
create_on_reply_WrongStatus(name, reply) ==
    IF reply.kind = "raise"
    THEN ToolResult(<<"Error creating repository: ", "ConnectError">>, PyBool(TRUE))
    ELSE LET data == JsonDict(reply.body) IN
         IF data.kind = "raise"
         THEN ToolResult(<<"Error creating repository: ", data.value>>, PyBool(TRUE))
         ELSE IF reply.status = HTTP_OK
         THEN ToolResult(<<"Successfully created GitHub repository '", Fmt(name),
                           "'!\n\nRepository URL: ",
                           Fmt(Get(data.value, "html_url", PyStr("Unknown"))),
                           "\nClone URL: ",
                           Fmt(Get(data.value, "clone_url", PyStr("Unknown")))>>,
                         Absent)
         ELSE ToolResult(<<"Failed to create repository: ",
                           Fmt(Get(data.value, "message", PyStr("Unknown error"))),
                           " (Status: ", ToString(reply.status), ")">>,
                         PyBool(TRUE))

\* create_github_repository from the reply of client.post on
create_on_reply(name, reply) ==
    IF reply.kind = "raise"
    THEN ToolResult(<<"Error creating repository: ", "ConnectError">>, PyBool(TRUE))
    ELSE LET data == JsonDict(reply.body) IN
         IF data.kind = "raise"
         THEN ToolResult(<<"Error creating repository: ", data.value>>, PyBool(TRUE))
         ELSE IF reply.status = HTTP_CREATED
         THEN ToolResult(<<"Successfully created GitHub repository '", Fmt(name),
                           "'!\n\nRepository URL: ",
                           Fmt(Get(data.value, "html_url", PyStr("Unknown"))),
                           "\nClone URL: ",
                           Fmt(Get(data.value, "clone_url", PyStr("Unknown")))>>,
                         Absent)
         ELSE ToolResult(<<"Failed to create repository: ",
                           Fmt(Get(data.value, "message", PyStr("Unknown error"))),
                           " (Status: ", ToString(reply.status), ")">>,
                         PyBool(TRUE))

\* mutant of delete_github_repository: the name is read before the try block,
\* so arguments that is no dict raises out of the tool
delete_github_repository_GetOutsideTry(arguments) ==
    IF ~IsDict(arguments)
    THEN Raise("AttributeError")
    ELSE LET name == Get(arguments, "name", None) IN
         IF ~Truthy(name)
         THEN Return(NameRequired)
         ELSE Call(HttpRequest("GET", GITHUB_USER_URL, Absent), name)

\* delete_github_repository up to `await client.get(...)`
delete_github_repository(arguments) ==
    IF ~IsDict(arguments)
    THEN Return(ToolResult(<<"Error deleting repository: ", "AttributeError">>, PyBool(TRUE)))
    ELSE LET name == Get(arguments, "name", None) IN
         IF ~Truthy(name)
         THEN Return(NameRequired)
         ELSE Call(HttpRequest("GET", GITHUB_USER_URL, Absent), name)

\* mutant of delete_on_lookup: the lookup's status code is not checked
delete_on_lookup_NoStatusCheck(name, reply) ==
    IF reply.kind = "raise"
    THEN Return(ToolResult(<<"Error deleting repository: ", "ConnectError">>, PyBool(TRUE)))
    ELSE LET data == JsonDict(reply.body) IN
         IF data.kind = "raise"
         THEN Return(ToolResult(<<"Error deleting repository: ", data.value>>, PyBool(TRUE)))
         ELSE LET username == Get(data.value, "login", None) IN
              Call(HttpRequest("DELETE",
                               <<"https://api.github.com/repos/", Fmt(username), "/", Fmt(name)>>,
                               Absent),
                   name)

\* delete_github_repository from the reply of client.get to `await client.delete(...)`
delete_on_lookup(name, reply) ==
    IF reply.kind = "raise"
    THEN Return(ToolResult(<<"Error deleting repository: ", "ConnectError">>, PyBool(TRUE)))
    ELSE IF reply.status # HTTP_OK
    THEN Return(ToolResult(<<"Failed to get user info: ", ToString(reply.status)>>, PyBool(TRUE)))
    ELSE LET data == JsonDict(reply.body) IN
         IF data.kind = "raise"
         THEN Return(ToolResult(<<"Error deleting repository: ", data.value>>, PyBool(TRUE)))
         ELSE LET username == Get(data.value, "login", None) IN
              Call(HttpRequest("DELETE",
                               <<"https://api.github.com/repos/", Fmt(username), "/", Fmt(name)>>,
                               Absent),
                   name)

\* mutant of delete_on_reply: the result for a rejected deletion lacks isError
delete_on_reply_NoFlag(name, reply) ==
    IF reply.kind = "raise"
    THEN ToolResult(<<"Error deleting repository: ", "ConnectError">>, PyBool(TRUE))
    ELSE IF reply.status = HTTP_NO_CONTENT
    THEN ToolResult(<<"Successfully deleted GitHub repository '", Fmt(name), "'">>, Absent)
    ELSE LET data == JsonDict(reply.body) IN
         IF data.kind = "raise"
         THEN ToolResult(<<"Error deleting repository: ", data.value>>, PyBool(TRUE))
         ELSE ToolResult(<<"Failed to delete repository: ",
                           Fmt(Get(data.value, "message", PyStr("Unknown error"))),
                           " (Status: ", ToString(reply.status), ")">>,
                         Absent)

\* delete_github_repository from the reply of client.delete on
delete_on_reply(name, reply) ==
    IF reply.kind = "raise"
    THEN ToolResult(<<"Error deleting repository: ", "ConnectError">>, PyBool(TRUE))
    ELSE IF reply.status = HTTP_NO_CONTENT
    THEN ToolResult(<<"Successfully deleted GitHub repository '", Fmt(name), "'">>, Absent)
    ELSE LET data == JsonDict(reply.body) IN
         IF data.kind = "raise"
         THEN ToolResult(<<"Error deleting repository: ", data.value>>, PyBool(TRUE))
         ELSE ToolResult(<<"Failed to delete repository: ",
                           Fmt(Get(data.value, "message", PyStr("Unknown error"))),
                           " (Status: ", ToString(reply.status), ")">>,
                         PyBool(TRUE))

\* mutant of UnknownTool: the unknown tool is reported as a failed Tool Result
UnknownTool_AsResult(tool_name, id) ==
    Response(id, ToolResult(<<"Unknown tool: ", Fmt(tool_name)>>, PyBool(TRUE)), Absent)

UnknownTool(tool_name, id) ==
    Response(id, Absent, ErrorObject(METHOD_NOT_FOUND, <<"Unknown tool: ", Fmt(tool_name)>>))

\* mutant of ToolResponse: a failed operation is reported in both channels
ToolResponse_BothChannels(id, result) ==
    Response(id, result,
             IF result.isError = Absent THEN Absent
             ELSE ErrorObject(INTERNAL_ERROR, result.content[1].text))

\* the response handle_call_tool builds around a tool's result
ToolResponse(id, result) == Response(id, result, Absent)

\* handle_call_tool up to the tool's first suspension point
handle_call_tool(msg, id) ==
    LET params == Get(msg, "params", PyDict(EmptyParams)) IN
    IF ~IsDict(params) THEN Raise("AttributeError")
    ELSE LET tool_name == Get(params, "name", None)
             arguments == Get(params, "arguments", PyDict(EmptyArguments))
         IN  IF tool_name = PyStr("create_github_repository")
             THEN LET r == create_github_repository(arguments) IN
                  IF r.kind = "return" THEN Return(ToolResponse(id, r.value)) ELSE r
             ELSE IF tool_name = PyStr("delete_github_repository")
             THEN LET r == delete_github_repository(arguments) IN
                  IF r.kind = "return" THEN Return(ToolResponse(id, r.value)) ELSE r
             ELSE Return(UnknownTool(tool_name, id))

\* mutant of MethodNotFound: the unknown method is reported as an internal error
MethodNotFound_WrongCode(method, id) ==
    Response(id, Absent, ErrorObject(INTERNAL_ERROR, <<"Method not found: ", Fmt(method)>>))

MethodNotFound(method, id) ==
    Response(id, Absent, ErrorObject(METHOD_NOT_FOUND, <<"Method not found: ", Fmt(method)>>))

\* handle_message up to the first suspension point
handle_message(msg) ==
    IF ~IsDict(msg) THEN Raise("AttributeError")
    ELSE LET method == Get(msg, "method", None)
             id == Get(msg, "id", None)
         IN  IF method = PyStr("initialize") THEN Return(handle_initialize(msg, id))
             ELSE IF method = PyStr("tools/list") THEN Return(handle_list_tools(id))
             ELSE IF method = PyStr("tools/call") THEN handle_call_tool(msg, id)
             ELSE Return(MethodNotFound(method, id))

---------------------------------------------------------------------------
(* main(): the transport loop *)

Init ==
    /\ pc = "read"
    /\ line = Unbound
    /\ message = Unbound
    /\ response = Unbound
    /\ exc = "none"
    /\ msg_id = Unbound
    /\ repo_name = Unbound
    /\ calls = <<>>
    /\ nread = 0
    /\ nwritten = 0
    /\ out = Unbound
    /\ outFor = 0

\* print(text, flush=True) on stdout; the exchange with the hosting API for this
\* line is over
WriteStdout(text) ==
    /\ out' = text
    /\ nwritten' = nwritten + 1
    /\ outFor' = nread
    /\ calls' = <<>>

\* the coroutine stack moves on: it suspends on a request, raises into main, or
\* returns the value main assigns to `response`
Continue(step, id) ==
    CASE step.kind = "call" ->
           /\ calls' = Append(calls, step.value)
           /\ pc' = (CASE step.value.verb = "POST" -> "await_post"
                       [] step.value.verb = "GET" -> "await_get"
                       [] step.value.verb = "DELETE" -> "await_delete")
           /\ msg_id' = id
           /\ repo_name' = step.repo_name
           /\ UNCHANGED <<response, exc>>
      [] step.kind = "raise" ->
           /\ exc' = step.value
           /\ pc' = "except_other"
           /\ msg_id' = Unbound
           /\ repo_name' = Unbound
           /\ UNCHANGED <<response, calls>>
      [] step.kind = "return" ->
           /\ response' = step.value
           /\ pc' = "write"
           /\ msg_id' = Unbound
           /\ repo_name' = Unbound
           /\ UNCHANGED <<exc, calls>>

\* mutant of main_readline: the next line is read while an external call is awaited
main_readline_Concurrent ==
    /\ pc \in {"read", "await_post", "await_get", "await_delete"}
    /\ \/ /\ nread < MaxLines
          /\ \E l \in Lines : line' = l
          /\ nread' = nread + 1
          /\ pc' = "parse"
       \/ /\ pc = "read"
          /\ line' = EOF
          /\ pc' = "done"
          /\ UNCHANGED nread
    /\ UNCHANGED <<message, response, exc, msg_id, repo_name, calls, nwritten, out, outFor>>

\* line = readline(); if not line: break
main_readline ==
    /\ pc = "read"
    /\ \/ /\ nread < MaxLines
          /\ \E l \in Lines : line' = l
          /\ nread' = nread + 1
          /\ pc' = "parse"
       \/ /\ line' = EOF
          /\ pc' = "done"
          /\ UNCHANGED nread
    /\ UNCHANGED <<message, response, exc, msg_id, repo_name, calls, nwritten, out, outFor>>

\* message = json.loads(line.strip())
main_loads ==
    /\ pc = "parse"
    /\ IF Loads(line).ok
       THEN /\ message' = Loads(line).val
            /\ pc' = "dispatch"
            /\ UNCHANGED exc
       ELSE /\ exc' = "JSONDecodeError"
            /\ pc' = "except_decode"
            /\ UNCHANGED message
    /\ UNCHANGED <<line, response, msg_id, repo_name, calls, nread, nwritten, out, outFor>>

\* response = await server.handle_message(message), up to the first suspension
main_dispatch ==
    /\ pc = "dispatch"
    /\ Continue(handle_message(message),
                IF IsDict(message) THEN Get(message, "id", None) ELSE Unbound)
    /\ UNCHANGED <<line, message, nread, nwritten, out, outFor>>

\* the last request issued, answered by `reply`
Answered(reply) == [calls EXCEPT ![Len(calls)].reply = reply]

\* mutant of post_reply: a creation request whose transport failed is sent again
post_reply_Retry ==
    /\ pc = "await_post"
    /\ \E reply \in Replies :
         IF reply.kind = "raise" /\ Len(calls) < 3
         THEN /\ calls' = Append(Answered(reply),
                                 HttpRequest("POST", GITHUB_API_URL, calls[Len(calls)].json))
              /\ pc' = "await_post"
              /\ UNCHANGED <<response, msg_id, repo_name>>
         ELSE /\ response' = ToolResponse(msg_id, create_on_reply(repo_name, reply))
              /\ calls' = Answered(reply)
              /\ pc' = "write"
              /\ msg_id' = Unbound
              /\ repo_name' = Unbound
    /\ UNCHANGED <<line, message, exc, nread, nwritten, out, outFor>>

\* the hosting API answers the creation request (or the transport fails)
post_reply ==
    /\ pc = "await_post"
    /\ \E reply \in Replies :
         /\ response' = ToolResponse(msg_id, create_on_reply(repo_name, reply))
         /\ calls' = Answered(reply)
    /\ pc' = "write"
    /\ msg_id' = Unbound
    /\ repo_name' = Unbound
    /\ UNCHANGED <<line, message, exc, nread, nwritten, out, outFor>>

\* the hosting API answers the user lookup (or the transport fails)
get_reply ==
    /\ pc = "await_get"
    /\ \E reply \in Replies :
         LET step == delete_on_lookup(repo_name, reply) IN
         /\ calls' = IF step.kind = "call"
                     THEN Append(Answered(reply), step.value)
                     ELSE Answered(reply)
         /\ IF step.kind = "call"
            THEN /\ pc' = "await_delete"
                 /\ UNCHANGED <<response, msg_id, repo_name>>
            ELSE /\ response' = ToolResponse(msg_id, step.value)
                 /\ pc' = "write"
                 /\ msg_id' = Unbound
                 /\ repo_name' = Unbound
    /\ UNCHANGED <<line, message, exc, nread, nwritten, out, outFor>>

\* the hosting API answers the deletion request (or the transport fails)
delete_reply ==
    /\ pc = "await_delete"
    /\ \E reply \in Replies :
         /\ response' = ToolResponse(msg_id, delete_on_reply(repo_name, reply))
         /\ calls' = Answered(reply)
    /\ pc' = "write"
    /\ msg_id' = Unbound
    /\ repo_name' = Unbound
    /\ UNCHANGED <<line, message, exc, nread, nwritten, out, outFor>>

\* print(json.dumps(response), flush=True)
main_print ==
    /\ pc = "write"
    /\ WriteStdout(Dumps(response))
    /\ pc' = "read"
    /\ UNCHANGED <<line, message, response, exc, msg_id, repo_name, nread>>

\* mutant of ParseErrorResponse: the response carries "id": None
ParseErrorResponse_NullId(e) ==
    Response(None, Absent, ErrorObject(PARSE_ERROR, <<"Parse error: ", e>>))

ParseErrorResponse(e) ==
    Response(Absent, Absent, ErrorObject(PARSE_ERROR, <<"Parse error: ", e>>))

\* mutant of InternalErrorResponse: the failure is reported as a parse error
InternalErrorResponse_WrongCode(e) ==
    Response(Absent, Absent, ErrorObject(PARSE_ERROR, <<"Internal error: ", e>>))

InternalErrorResponse(e) ==
    Response(Absent, Absent, ErrorObject(INTERNAL_ERROR, <<"Internal error: ", e>>))

\* mutant of main_except_decode: malformed input ends the loop
main_except_decode_Break ==
    /\ pc = "except_decode"
    /\ WriteStdout(Dumps(ParseErrorResponse(exc)))
    /\ exc' = "none"
    /\ pc' = "done"
    /\ UNCHANGED <<line, message, response, msg_id, repo_name, nread>>

\* except json.JSONDecodeError as e: print(...)
main_except_decode ==
    /\ pc = "except_decode"
    /\ WriteStdout(Dumps(ParseErrorResponse(exc)))
    /\ exc' = "none"
    /\ pc' = "read"
    /\ UNCHANGED <<line, message, response, msg_id, repo_name, nread>>

\* mutant of main_except_other: the failure is swallowed and nothing is printed
main_except_other_Silent ==
    /\ pc = "except_other"
    /\ exc' = "none"
    /\ pc' = "read"
    /\ UNCHANGED <<line, message, response, msg_id, repo_name, calls, nread, nwritten, out, outFor>>

\* except Exception as e: print(...)
main_except_other ==
    /\ pc = "except_other"
    /\ WriteStdout(Dumps(InternalErrorResponse(exc)))
    /\ exc' = "none"
    /\ pc' = "read"
    /\ UNCHANGED <<line, message, response, msg_id, repo_name, nread>>

Next ==
    \/ main_readline
    \/ main_loads
    \/ main_dispatch
    \/ post_reply
    \/ get_reply
    \/ delete_reply
    \/ main_print
    \/ main_except_decode
    \/ main_except_other

Spec == Init /\ [][Next]_vars

\* The running process takes each step of the loop that is possible, and every
\* request made to the hosting API is answered or fails.  readline may block
\* for ever: nothing obliges the peer to send another line or to close the stream.
FairSpec ==
    /\ Spec
    /\ WF_vars(main_loads) /\ WF_vars(main_dispatch) /\ WF_vars(main_print)
    /\ WF_vars(main_except_decode) /\ WF_vars(main_except_other)
    /\ WF_vars(post_reply) /\ WF_vars(get_reply) /\ WF_vars(delete_reply)

---------------------------------------------------------------------------
(* Vocabulary of the properties *)

AwaitStates == {"await_post", "await_get", "await_delete"}

\* main is between json.loads and the print of the answer: `message` is the
\* decoded current line
Handling == pc \in {"dispatch", "write", "except_other"} \cup AwaitStates

\* the loop is back at readline after answering `line`
BackAtReadline == pc = "read" /\ nread > 0

IsToolCall(m) == IsDict(m) /\ Get(m, "method", None) = PyStr("tools/call")

\* the response carried by the last line printed
Written == out.val

IsParseError(r) ==
    /\ r.error # Absent
    /\ r.error.code = PARSE_ERROR
    /\ r.result = Absent
    /\ r.id = Absent

\* What the server answers to line l when the hosting API answers the requests
\* made for it as recorded in log: the line and the replies alone decide it.
AnswerTo(l, log) ==
    IF ~Loads(l).ok THEN ParseErrorResponse("JSONDecodeError")
    ELSE LET first == handle_message(Loads(l).val) IN
         CASE first.kind = "return" -> first.value
           [] first.kind = "raise" -> InternalErrorResponse(first.value)
           [] first.kind = "call" ->
                LET id == Get(Loads(l).val, "id", None)
                    name == first.repo_name
                IN  IF first.value.verb = "POST"
                    THEN ToolResponse(id, create_on_reply(name, log[1].reply))
                    ELSE LET second == delete_on_lookup(name, log[1].reply) IN
                         IF second.kind = "return"
                         THEN ToolResponse(id, second.value)
                         ELSE ToolResponse(id, delete_on_reply(name, log[2].reply))

---------------------------------------------------------------------------
(* C1 - identifier round trip *)

\* C1: once the loop is back at readline, if the line just answered decodes to
\* a request that carries an identifier, the response printed for it carries
\* that identifier - whatever the method, and also when dispatch raised and the
\* loop printed the internal-error response.
C1_IdentifierEchoed ==
    (/\ BackAtReadline
     /\ Loads(line).ok
     /\ IsDict(Loads(line).val)
     /\ HasKey(Loads(line).val, "id"))
    => Written.id = Loads(line).val.v.id

---------------------------------------------------------------------------
(* C2 - result and error are mutually exclusive *)

ExactlyOne(r) == (r.result = Absent) # (r.error = Absent)

\* C2: every response printed, and every response about to be printed, carries
\* exactly one of result and error.
C2_ResultXorError ==
    /\ nwritten > 0 => ExactlyOne(Written)
    /\ pc = "write" => ExactlyOne(response)

\* an internal-error response (from the second except clause) has been printed
C2_Witness ==
    /\ nwritten > 0
    /\ Written.error # Absent
    /\ Written.error.code = INTERNAL_ERROR

---------------------------------------------------------------------------
(* C3 - one response line per input line *)

\* the count of printed lines never runs ahead of, or more than one behind, the
\* count of lines read
C3_Counts ==
    /\ pc \in {"read", "done"} => nwritten = nread
    /\ pc \notin {"read", "done"} => nwritten + 1 = nread
    /\ pc # "done" => ENABLED Next

\* C3: every line read is answered by exactly one printed line: while a line
\* is being handled nothing has been printed for it yet, whenever the loop is
\* back at readline (or has ended) as many lines were printed as were read, and
\* provided the external calls return or raise every line read does get its
\* printed line.
C3_OneResponsePerLine ==
    /\ []C3_Counts
    /\ (nwritten < nread) ~> (nwritten = nread)

\* a blank line and a line before it have each been answered
C3_Witness ==
    /\ pc = "read"
    /\ nread >= 2
    /\ nwritten = nread
    /\ line = BlankLine

---------------------------------------------------------------------------
(* C4 - one request outstanding, responses in request order *)

\* C4: never more than one line is unanswered; while an external call is
\* awaited the line that started it is the only one unanswered; and the k-th
\* line printed was printed while exactly k lines had been read.
C4_OneOutstanding ==
    /\ nwritten <= nread
    /\ nread <= nwritten + 1
    /\ pc \in AwaitStates =>
         /\ nread = nwritten + 1
         /\ calls # <<>>
         /\ calls[Len(calls)].reply = Pending
    /\ nwritten > 0 => outFor = nwritten

\* the second line's deletion request is awaited while the first line is answered
C4_Witness ==
    /\ pc = "await_delete"
    /\ nread = 2
    /\ nwritten = 1

---------------------------------------------------------------------------
(* C5 - malformed input *)

\* C5: a line that is not valid JSON never reaches the dispatcher and starts
\* no external call; it is answered by the parse-error response (code -32700,
\* no id, no result); and the line after it is answered exactly as the line
\* itself and the hosting API's replies decide.
C5_ParseErrorAndContinue ==
    /\ (pc \in {"parse", "except_decode"} /\ ~Loads(line).ok) =>
         /\ calls = <<>>
         /\ msg_id = Unbound
    /\ Handling => Loads(line).ok
    /\ (BackAtReadline /\ ~Loads(line).ok) =>
         /\ IsParseError(Written)
         /\ outFor = nread
    /\ (nwritten > 0 /\ IsParseError(Written)) =>
         /\ pc = "write" => response = AnswerTo(line, calls)
         /\ pc = "except_other" => InternalErrorResponse(exc) = AnswerTo(line, calls)
         /\ pc = "except_decode" => ParseErrorResponse(exc) = AnswerTo(line, calls)

\* the line after a malformed one went through a tool and is about to be answered
C5_Witness ==
    /\ pc = "write"
    /\ nwritten > 0
    /\ IsParseError(Written)
    /\ calls # <<>>
    /\ response.result # Absent

---------------------------------------------------------------------------
(* C6 - termination *)

\* C6: the loop ends exactly when readline returns end-of-stream: a step ends
\* the loop if and only if it is a readline that returns the empty string,
\* that step prints nothing, and nothing happens after it.
C6_EndsOnlyAtEndOfStream ==
    [][ /\ pc # "done"
        /\ (pc' = "done") <=> (pc = "read" /\ line' = EOF)
        /\ pc' = "done" => (nwritten' = nwritten /\ out' = out) ]_vars

\* the loop has ended after answering a parse error and an internal error
C6_Witness ==
    /\ pc = "done"
    /\ nwritten = 2
    /\ Written.error # Absent
    /\ Written.error.code \in {PARSE_ERROR, INTERNAL_ERROR}

---------------------------------------------------------------------------
(* Vocabulary of the tools/call properties *)

KnownTools == { PyStr("create_github_repository"), PyStr("delete_github_repository") }

ParamsOf(m) == Get(m, "params", PyDict(EmptyParams))

\* the tool name a request carries; None when it carries none
ToolNameOf(m) == IF IsDict(ParamsOf(m)) THEN Get(ParamsOf(m), "name", None) ELSE None

\* the arguments of a request whose params is an object
ArgumentsOf(m) == Get(ParamsOf(m), "arguments", PyDict(EmptyArguments))

\* the arguments carry no name, or an empty one
NameMissing(a) == ~IsDict(a) \/ ~HasKey(a, "name") \/ a.v["name"] = PyStr("")

\* the text of the Tool Result in response r
ResultText(r) == r.result.content[1].text

\* the answer to an unknown tool: error -32601 naming the tool, no result
UnknownToolAnswer ==
    /\ pc # "except_other"
    /\ pc = "write" =>
         /\ response.error # Absent
         /\ response.error.code = METHOD_NOT_FOUND
         /\ Fmt(ToolNameOf(message)) \in Range(response.error.message)
         /\ response.result = Absent

\* no request to the hosting API was made, none is awaited, and no result is returned
NoCallNoResult ==
    /\ calls = <<>>
    /\ pc \notin AwaitStates
    /\ pc = "write" => response.result = Absent

---------------------------------------------------------------------------
(* C7 - unknown tool *)

\* C7 as stated: every tools/call request whose tool name is neither
\* create_github_repository nor delete_github_repository (a request that carries
\* no name included) is answered by error -32601 naming the tool, without a
\* result and without an external call.
C7_AsStated ==
    (Handling /\ IsToolCall(message) /\ ToolNameOf(message) \notin KnownTools)
    => (UnknownToolAnswer /\ NoCallNoResult)

\* C7, amended: a tools/call request whose tool name is neither of the two is
\* never answered by a result and starts no external call; when its params is
\* absent or an object (the name may still be absent) it is answered by error
\* -32601 with a message containing the tool name.
C7_UnknownTool ==
    (Handling /\ IsToolCall(message) /\ ToolNameOf(message) \notin KnownTools)
    => /\ NoCallNoResult
       /\ IsDict(ParamsOf(message)) => UnknownToolAnswer

\* a tools/call request whose params object has no name is about to be answered
C7_Witness ==
    /\ pc = "write"
    /\ IsToolCall(message)
    /\ IsDict(ParamsOf(message))
    /\ ~HasKey(ParamsOf(message), "name")
    /\ response.error # Absent

---------------------------------------------------------------------------
(* C8 - name validation precedes every external call *)

\* C8: a call of create_github_repository or delete_github_repository whose
\* arguments carry no name or an empty one starts no external call and returns
\* a Tool Result with isError true.
C8_NameRequired ==
    (/\ Handling
     /\ IsToolCall(message)
     /\ IsDict(ParamsOf(message))
     /\ ToolNameOf(message) \in KnownTools
     /\ NameMissing(ArgumentsOf(message)))
    => /\ calls = <<>>
       /\ pc \in {"dispatch", "write"}
       /\ pc = "write" =>
            /\ response.error = Absent
            /\ response.result # Absent
            /\ response.result.isError = PyBool(TRUE)

\* delete_github_repository was called with an empty name and has returned
C8_Witness ==
    /\ pc = "write"
    /\ IsToolCall(message)
    /\ IsDict(ParamsOf(message))
    /\ ToolNameOf(message) = PyStr("delete_github_repository")
    /\ IsDict(ArgumentsOf(message))
    /\ Get(ArgumentsOf(message), "name", None) = PyStr("")
    /\ response.result # Absent

---------------------------------------------------------------------------
(* C9 - no deletion without a successful user lookup *)

LookupSucceeded(c) == c.verb = "GET" /\ c.reply.kind = "response" /\ c.reply.status = HTTP_OK

\* C9: a deletion request is only ever the second request of an invocation
\* whose first request, the user lookup, was answered with status 200; and
\* when the lookup raises or is answered with another status the operation
\* returns isError true (with the status code in the text when there is one)
\* having issued the lookup alone.
C9_LookupGatesDeletion ==
    /\ \A i \in DOMAIN calls :
         calls[i].verb = "DELETE" => (i = 2 /\ LookupSucceeded(calls[1]))
    /\ (pc = "write" /\ calls # <<>> /\ calls[1].verb = "GET" /\ ~LookupSucceeded(calls[1])) =>
         /\ Len(calls) = 1
         /\ response.result # Absent
         /\ response.result.isError = PyBool(TRUE)
         /\ calls[1].reply.kind = "response" =>
              ResultText(response) =
                <<"Failed to get user info: ", ToString(calls[1].reply.status)>>

\* the lookup was answered 404 and delete_github_repository has returned
C9_Witness ==
    /\ pc = "write"
    /\ Len(calls) = 1
    /\ calls[1].verb = "GET"
    /\ calls[1].reply.kind = "response"
    /\ calls[1].reply.status = 404
    /\ response.result.isError = PyBool(TRUE)

---------------------------------------------------------------------------
(* C10 - the success paths *)

\* the reply is a 201 whose body returns both URLs
Created(c) ==
    /\ c.verb = "POST"
    /\ c.reply.kind = "response"
    /\ c.reply.status = HTTP_CREATED
    /\ IsDict(c.reply.body)
    /\ HasKey(c.reply.body, "html_url")
    /\ HasKey(c.reply.body, "clone_url")

Deleted(c) == c.verb = "DELETE" /\ c.reply.kind = "response" /\ c.reply.status = HTTP_NO_CONTENT

\* C10: when the creation request is answered 201 with a body returning html_url
\* and clone_url, the Tool Result has no isError and its text contains both
\* URLs; when the lookup is answered 200 and the deletion request 204, the Tool
\* Result has no isError and its text is the success text naming the repository.
C10_SuccessPaths ==
    (pc = "write" /\ calls # <<>>) =>
      /\ Created(calls[1]) =>
           /\ response.error = Absent
           /\ response.result.isError = Absent
           /\ Fmt(calls[1].reply.body.v["html_url"]) \in Range(ResultText(response))
           /\ Fmt(calls[1].reply.body.v["clone_url"]) \in Range(ResultText(response))
           /\ ResultText(response)[1] = "Successfully created GitHub repository '"
      /\ (Len(calls) = 2 /\ LookupSucceeded(calls[1]) /\ Deleted(calls[2])) =>
           /\ response.error = Absent
           /\ response.result.isError = Absent
           /\ ResultText(response) =
                <<"Successfully deleted GitHub repository '",
                  Fmt(Get(ArgumentsOf(message), "name", None)), "'">>

\* the creation request was answered 201 with both URLs and the tool has returned
C10_Witness ==
    /\ pc = "write"
    /\ calls # <<>>
    /\ Created(calls[1])
    /\ response.result.isError = Absent

\* the deletion request was answered 204 and the tool has returned
C10_WitnessDelete ==
    /\ pc = "write"
    /\ Len(calls) = 2
    /\ Deleted(calls[2])
    /\ response.result.isError = Absent

---------------------------------------------------------------------------
(* C11 - operation failures are data *)

\* the request names one of the two tools
NamesKnownTool(m) ==
    IsToolCall(m) /\ IsDict(ParamsOf(m)) /\ ToolNameOf(m) \in KnownTools

\* the operation reached its success return: the creation request was answered
\* 201 with a body that is a JSON object, or the deletion request 204
Succeeded ==
    /\ calls # <<>>
    /\ LET last == calls[Len(calls)] IN
       /\ last.reply.kind = "response"
       /\ \/ /\ last.verb = "POST"
             /\ last.reply.status = HTTP_CREATED
             /\ IsDict(last.reply.body)
          \/ /\ last.verb = "DELETE"
             /\ last.reply.status = HTTP_NO_CONTENT

\* C11: a tools/call request that names create_github_repository or
\* delete_github_repository never raises into the transport loop and is always
\* answered by a result and no error object, whatever its arguments are and
\* whatever the hosting API replies; unless the operation succeeded the result
\* carries isError true.
C11_FailuresAreData ==
    (Handling /\ NamesKnownTool(message)) =>
      /\ pc # "except_other"
      /\ pc = "write" =>
           /\ response.error = Absent
           /\ response.result # Absent
           /\ ~Succeeded => response.result.isError = PyBool(TRUE)

\* delete_github_repository was called with arguments that is no object and
\* has returned a failed Tool Result
C11_Witness ==
    /\ pc = "write"
    /\ NamesKnownTool(message)
    /\ ToolNameOf(message) = PyStr("delete_github_repository")
    /\ ~IsDict(ArgumentsOf(message))
    /\ response.result # Absent
    /\ response.result.isError = PyBool(TRUE)

\* the transport failed while the creation request was awaited and the tool
\* has returned a failed Tool Result
C11_WitnessTransport ==
    /\ pc = "write"
    /\ calls # <<>>
    /\ calls[1].verb = "POST"
    /\ calls[1].reply.kind = "raise"
    /\ response.result.isError = PyBool(TRUE)

---------------------------------------------------------------------------
(* C12 - no cross-request state *)

InitializeResult ==
    [protocolVersion |-> "2024-11-05",
     capabilities |-> [tools |-> "{}"],
     serverInfo |-> [name |-> "github-repo-creator", version |-> "1.0.0"]]

MethodOf(m) == Get(m, "method", None)

\* C12: whatever was handled before, the answer about to be printed is the one
\* the current line and the hosting API's replies to it determine; initialize
\* is answered with the same protocol version, capabilities and server
\* identity whatever its params, and tools/list with the same two descriptors.
C12_Stateless ==
    /\ pc = "write" =>
         /\ response = AnswerTo(line, calls)
         /\ MethodOf(message) = PyStr("initialize") =>
              response = Response(Get(message, "id", None), InitializeResult, Absent)
         /\ MethodOf(message) = PyStr("tools/list") =>
              /\ response.error = Absent
              /\ Len(response.result.tools) = 2
              /\ response.result.tools[1].name = "create_github_repository"
              /\ response.result.tools[2].name = "delete_github_repository"
    /\ pc = "except_other" => InternalErrorResponse(exc) = AnswerTo(line, calls)
    /\ pc = "except_decode" => ParseErrorResponse(exc) = AnswerTo(line, calls)

\* a tool call that went to the hosting API is about to be answered although
\* the only line before it was not an initialize (it was an unknown method)
C12_Witness ==
    /\ pc = "write"
    /\ nwritten = 1
    /\ IsToolCall(message)
    /\ calls # <<>>
    /\ Written.error # Absent
    /\ Written.error.message[1] = "Method not found: "

\* an initialize that carries params is about to be answered
C12_WitnessInitialize ==
    /\ pc = "write"
    /\ MethodOf(message) = PyStr("initialize")
    /\ HasKey(message, "params")

---------------------------------------------------------------------------
(* C13 - unknown method *)

KnownMethods == { PyStr("initialize"), PyStr("tools/list"), PyStr("tools/call") }

\* C13: a request whose method is none of initialize, tools/list and tools/call
\* (a request without method included) starts no tool and no external call and
\* is answered by error -32601 with the message "Method not found: <method>".
C13_MethodNotFound ==
    (Handling /\ IsDict(message) /\ MethodOf(message) \notin KnownMethods) =>
      /\ calls = <<>>
      /\ repo_name = Unbound
      /\ pc \in {"dispatch", "write"}
      /\ pc = "write" =>
           response = Response(Get(message, "id", None), Absent,
                               ErrorObject(METHOD_NOT_FOUND,
                                           <<"Method not found: ", Fmt(MethodOf(message))>>))

\* a request without method is about to be answered
C13_Witness ==
    /\ pc = "write"
    /\ IsDict(message)
    /\ ~HasKey(message, "method")
    /\ response.error # Absent

---------------------------------------------------------------------------
(* C14 - the text of a rejected request *)

\* the final request of the operation was answered with a status that is not
\* its success status
Rejected(c) ==
    /\ c.reply.kind = "response"
    /\ \/ c.verb = "POST" /\ c.reply.status # HTTP_CREATED
       \/ c.verb = "DELETE" /\ c.reply.status # HTTP_NO_CONTENT

\* the body's message field, "Unknown error" when the body has none or cannot
\* be parsed
MessageOr(body) ==
    IF IsDict(body) /\ HasKey(body, "message")
    THEN Fmt(body.v["message"]) ELSE "Unknown error"

\* the text ends "<message> (Status: <code>)"
StatusText(text, reply) ==
    /\ Len(text) = 5
    /\ text[2] = MessageOr(reply.body)
    /\ text[3] = " (Status: "
    /\ text[4] = ToString(reply.status)
    /\ text[5] = ")"

\* C14: when the creation request is answered with a status other than 201, or
\* the deletion request with a status other than 204, the Tool Result has
\* isError true and its text is "<message> (Status: <code>)", the message being
\* the body's message field and "Unknown error" when the field is absent or the
\* body cannot be parsed.
C14_StatusText ==
    (pc = "write" /\ calls # <<>> /\ Rejected(calls[Len(calls)])) =>
      /\ response.result # Absent
      /\ response.result.isError = PyBool(TRUE)
      /\ StatusText(ResultText(response), calls[Len(calls)].reply)

\* the same for the replies whose body is a JSON object: there the code does
\* produce "<message> (Status: <code>)"
C14_ObjectBodies ==
    (pc = "write" /\ calls # <<>> /\ Rejected(calls[Len(calls)])
       /\ IsDict(calls[Len(calls)].reply.body)) =>
      /\ response.result.isError = PyBool(TRUE)
      /\ StatusText(ResultText(response), calls[Len(calls)].reply)

---------------------------------------------------------------------------
(* C15 - failures the dispatcher does not catch *)

\* the decoded value makes handle_message raise: it is no object, or it is a
\* tools/call request whose params is no object
DispatchRaises(m) == ~IsDict(m) \/ (IsToolCall(m) /\ ~IsDict(ParamsOf(m)))

IsInternalError(r) ==
    /\ r.error # Absent
    /\ r.error.code = INTERNAL_ERROR
    /\ r.result = Absent

\* C15: a decoded line on which dispatch raises starts no tool and no external
\* call; it is answered by exactly one response, the internal error -32603;
\* dispatch raises on no other line; and the line read after it is answered as
\* that line and the hosting API's replies decide.
C15_InternalErrorAndContinue ==
    /\ (Handling /\ DispatchRaises(message)) =>
         /\ pc \in {"dispatch", "except_other"}
         /\ calls = <<>>
         /\ repo_name = Unbound
    /\ pc = "except_other" =>
         /\ DispatchRaises(message)
         /\ nwritten + 1 = nread
    /\ (BackAtReadline /\ Loads(line).ok /\ DispatchRaises(Loads(line).val)) =>
         /\ IsInternalError(Written)
         /\ nwritten = nread
         /\ outFor = nread
    /\ (nwritten > 0 /\ IsInternalError(Written) /\ pc = "write") =>
         response = AnswerTo(line, calls)

\* the line after one that made dispatch raise went through a tool and is about
\* to be answered
C15_Witness ==
    /\ pc = "write"
    /\ nwritten = 1
    /\ IsInternalError(Written)
    /\ calls # <<>>
    /\ response.result # Absent

---------------------------------------------------------------------------
(* C16 - no retry *)

\* the request was answered and the answer is not the one the operation goes on from
FailedCall(c) ==
    \/ c.reply.kind = "raise"
    \/ /\ c.reply.kind = "response"
       /\ \/ c.verb = "POST" /\ c.reply.status # HTTP_CREATED
          \/ c.verb = "GET" /\ c.reply.status # HTTP_OK
          \/ c.verb = "DELETE" /\ c.reply.status # HTTP_NO_CONTENT

\* C16: while one line is handled no kind of request is issued twice; a
\* creation request is the only request of its invocation; a lookup is the
\* first request and a deletion the second, after the lookup; create issues
\* creation requests only and delete no creation request; and a request that
\* failed or is still awaited is the last one issued.
C16_NoRetry ==
    /\ \A i, j \in DOMAIN calls : calls[i].verb = calls[j].verb => i = j
    /\ \A i \in DOMAIN calls :
         /\ calls[i].verb = "POST" => Len(calls) = 1
         /\ calls[i].verb = "GET" => i = 1
         /\ calls[i].verb = "DELETE" => (i = 2 /\ calls[1].verb = "GET")
         /\ (calls[i].reply = Pending \/ FailedCall(calls[i])) => i = Len(calls)
    /\ (Handling /\ NamesKnownTool(message)) =>
         \A i \in DOMAIN calls :
           (calls[i].verb = "POST") <=> (ToolNameOf(message) = PyStr("create_github_repository"))
    /\ (Handling /\ ~NamesKnownTool(message)) => calls = <<>>

\* the transport failed on the deletion request and the operation has returned
C16_Witness ==
    /\ pc = "write"
    /\ Len(calls) = 2
    /\ calls[2].verb = "DELETE"
    /\ calls[2].reply.kind = "raise"
    /\ response.result.isError = PyBool(TRUE)

---------------------------------------------------------------------------
(* C17 - the owner of the deletion path *)

\* the path names the login the lookup returned and the repository name of the
\* arguments
PathFromLookup(c, lookup) ==
    /\ IsDict(lookup.reply.body)
    /\ HasKey(lookup.reply.body, "login")
    /\ c.url = <<"https://api.github.com/repos/",
                 Fmt(lookup.reply.body.v["login"]), "/",
                 Fmt(Get(ArgumentsOf(message), "name", None))>>

\* C17: every deletion request follows a user lookup answered 200 in the same
\* invocation and targets the path built from the login that reply returned
\* and the repository name of the arguments; none is issued with an owner the
\* lookup reply did not return.
C17_OwnerFromLookup ==
    \A i \in DOMAIN calls :
      calls[i].verb = "DELETE" =>
        /\ i = 2
        /\ LookupSucceeded(calls[1])
        /\ PathFromLookup(calls[i], calls[1])

\* the same for the lookups whose reply carries a login: there the path is
\* built from it
C17_WhenLoginReturned ==
    \A i \in DOMAIN calls :
      (/\ calls[i].verb = "DELETE"
       /\ IsDict(calls[1].reply.body)
       /\ HasKey(calls[1].reply.body, "login"))
      => (i = 2 /\ LookupSucceeded(calls[1]) /\ PathFromLookup(calls[i], calls[1]))

---------------------------------------------------------------------------
(* C18 - isError marks exactly the failures *)

\* the last request of the operation was answered with its success status
EndedWithSuccessStatus ==
    /\ calls # <<>>
    /\ LET last == calls[Len(calls)] IN
       /\ last.reply.kind = "response"
       /\ \/ last.verb = "POST" /\ last.reply.status = HTTP_CREATED
          \/ last.verb = "DELETE" /\ last.reply.status = HTTP_NO_CONTENT

OneTextItem(result) ==
    /\ Len(result.content) = 1
    /\ result.content[1].type = "text"
    /\ DOMAIN result.content[1] = {"type", "text"}

\* C18 as stated: the Tool Result of either tool has one text item as content;
\* isError is absent exactly when the operation ended with 201 (create) or 204
\* (delete) and is present and true otherwise.
C18_AsStated ==
    (pc = "write" /\ NamesKnownTool(message)) =>
      /\ OneTextItem(response.result)
      /\ response.result.isError \in {Absent, PyBool(TRUE)}
      /\ (response.result.isError = Absent) <=> EndedWithSuccessStatus

\* C18, amended: the Tool Result of either tool has one text item as content;
\* isError is absent exactly when the operation ended with 201 and a reply body
\* that is a JSON object (create) or with 204 (delete), and is present and true
\* otherwise: when name validation failed, the lookup was not 200, the final
\* status was not 201/204, or an exception occurred - the exception raised on
\* the body of a 201 reply included.
C18_IsErrorMarksFailure ==
    (pc = "write" /\ NamesKnownTool(message)) =>
      /\ OneTextItem(response.result)
      /\ response.result.isError \in {Absent, PyBool(TRUE)}
      /\ (response.result.isError = Absent) <=> Succeeded

\* the creation request was answered 201 with a body that cannot be parsed and
\* the tool has returned isError true
C18_Witness ==
    /\ pc = "write"
    /\ calls # <<>>
    /\ calls[1].verb = "POST"
    /\ calls[1].reply.kind = "response"
    /\ calls[1].reply.status = HTTP_CREATED
    /\ calls[1].reply.body = Unparseable
    /\ response.result.isError = PyBool(TRUE)

---------------------------------------------------------------------------
(* C19 - the creation payload *)

Supplied(a, k, default) == IF HasKey(a, k) THEN a.v[k] ELSE default

\* C19: every creation request carries exactly the fields name, private,
\* auto_init and, when the arguments have a description key, description: name
\* is the supplied name, private the supplied value or false, auto_init the
\* supplied value or true, description the supplied value.
C19_CreationPayload ==
    \A i \in DOMAIN calls :
      calls[i].verb = "POST" =>
        LET a == ArgumentsOf(message)
            j == calls[i].json
        IN  /\ DOMAIN j = {"name", "private", "auto_init", "description"}
            /\ j.name = a.v["name"]
            /\ j.private = Supplied(a, "private", PyBool(FALSE))
            /\ j.auto_init = Supplied(a, "auto_init", PyBool(TRUE))
            /\ (j.description # Absent) <=> HasKey(a, "description")
            /\ HasKey(a, "description") => j.description = a.v["description"]

\* a creation request is awaited for arguments whose description is null and
\* whose private and auto_init are supplied
C19_Witness ==
    /\ pc = "await_post"
    /\ HasKey(ArgumentsOf(message), "description")
    /\ ArgumentsOf(message).v["description"] = None
    /\ calls[1].json.private = PyBool(TRUE)
    /\ calls[1].json.auto_init = PyBool(FALSE)

\* a creation request is awaited for arguments that carry a name only
C19_WitnessDefaults ==
    /\ pc = "await_post"
    /\ ~HasKey(ArgumentsOf(message), "description")
    /\ ~HasKey(ArgumentsOf(message), "private")
    /\ calls[1].json.description = Absent

=============================================================================
